---- MODULE Spec2Model ----
(***************************************************************************)
(* Gemini EPUB Translator: the resumable translate / proofread / package   *)
(* workflow of App.tsx (startProcessing and the handlers around it), the   *)
(* chunking and retrying client it drives (AiService, and the older        *)
(* GeminiService build of the same client), and the parts of EpubService   *)
(* the workflow depends on.                                                *)
(*                                                                         *)
(* Texts are sequences of one-character strings.  Delays are counted in    *)
(* half milliseconds, so that the 1.5 factor of the rate-limit backoff     *)
(* stays exact for every delay a retry budget of five can produce.         *)
(***************************************************************************)
EXTENDS Integers, Sequences, FiniteSets, TLC

(* ------------------------------ bounds -------------------------------- *)

\* Chunk budget of the client (6000 in the source), scaled down so that
\* multi-chunk texts stay small.
CHUNK_SIZE == 12

\* Longest title, in words, handed to the classifier on its own.
MaxTitle == 2

\* Longest text handed to the chunker on its own; above CHUNK_SIZE, so that
\* over-long paragraphs and over-long lines occur.
MaxText == 14

\* Failures (service, parser, packager) the environment may inject between
\* two resets of the log.
MaxFail == 1

(* ------------------------- program constants -------------------------- *)

MIN_LENGTH == 10
INITIAL_DELAY == 2000
RATE_LIMIT_FLOOR == 15000
POLITE_DELAY == 2000
AI_RETRIES == 3
GEMINI_RETRIES == 5

\* A delay of n milliseconds, in half milliseconds.
Ms(n) == 2 * n

(* ------------------------------- texts -------------------------------- *)

NL == "\n"
Rep(c, n) == [j \in 1..n |-> c]
Para == <<NL, NL>>

\* JavaScript truthiness of an optional string: absent and "" are falsy.
None == <<"absent">>
Truthy(t) == t # None /\ Len(t) > 0

IsSpace(c) == c \in {NL, " "}

RECURSIVE TrimLeft(_)
TrimLeft(s) ==
    IF Len(s) > 0 /\ IsSpace(Head(s)) THEN TrimLeft(Tail(s)) ELSE s

RECURSIVE TrimRight(_)
TrimRight(s) ==
    IF Len(s) > 0 /\ IsSpace(s[Len(s)])
    THEN TrimRight(SubSeq(s, 1, Len(s) - 1))
    ELSE s

\* String.prototype.trim
Trim(s) == TrimRight(TrimLeft(s))

\* String.prototype.substring(from) and substring(0, n), clamped as in JS.
Substring(s, from, to) ==
    SubSeq(s, from + 1, IF to > Len(s) THEN Len(s) ELSE to)

\* text.split(/\n\n/): leftmost, non-overlapping separators.
RECURSIVE SplitParagraphs(_)
SplitParagraphs(s) ==
    LET hits == {p \in 1..(Len(s) - 1) : s[p] = NL /\ s[p + 1] = NL}
    IN  IF hits = {} THEN <<s>>
        ELSE LET p == CHOOSE q \in hits : \A r \in hits : q <= r
             IN  <<SubSeq(s, 1, p - 1)>>
                   \o SplitParagraphs(SubSeq(s, p + 2, Len(s)))

\* paragraph.split('\n')
RECURSIVE SplitLines(_)
SplitLines(s) ==
    LET hits == {p \in 1..Len(s) : s[p] = NL}
    IN  IF hits = {} THEN <<s>>
        ELSE LET p == CHOOSE q \in hits : \A r \in hits : q <= r
             IN  <<SubSeq(s, 1, p - 1)>>
                   \o SplitLines(SubSeq(s, p + 1, Len(s)))

\* A join that forgets the separator.
RECURSIVE JoinPlain(_, _)
JoinPlain(parts, sep) ==
    IF Len(parts) = 0 THEN <<>>
    ELSE parts[1] \o JoinPlain(Tail(parts), sep)

\* Array.prototype.join(sep)
RECURSIVE Join(_, _)
Join(parts, sep) ==
    IF Len(parts) = 0 THEN <<>>
    ELSE IF Len(parts) = 1 THEN parts[1]
    ELSE parts[1] \o sep \o Join(Tail(parts), sep)

(* ------------------------------ chunking ------------------------------ *)

\* A chunker that pushes an over-long line whole.
NoCut(remaining) == <<remaining>>

\* The hard cut of one over-long line (the while loop over `remaining`).
RECURSIVE HardCut(_)
HardCut(remaining) ==
    IF Len(remaining) = 0 THEN <<>>
    ELSE <<Substring(remaining, 0, CHUNK_SIZE)>>
           \o HardCut(Substring(remaining, CHUNK_SIZE, Len(remaining)))

\* The loop over the lines of one over-long paragraph.  st is the pair
\* [chunks, cur] of the chunks pushed so far and currentLineChunk.
RECURSIVE LineLoop(_, _)
LineLoop(lines, st) ==
    IF Len(lines) = 0
    THEN IF Len(st.cur) > 0 THEN Append(st.chunks, st.cur) ELSE st.chunks
    ELSE LET line == Head(lines)
             flushed == IF Len(st.cur) > 0
                        THEN Append(st.chunks, st.cur) ELSE st.chunks
         IN  IF Len(st.cur) + Len(line) + 1 > CHUNK_SIZE
             THEN IF Len(line) > CHUNK_SIZE
                  THEN LineLoop(Tail(lines),
                                [chunks |-> flushed \o HardCut(line), cur |-> <<>>])
                  ELSE LineLoop(Tail(lines), [chunks |-> flushed, cur |-> line])
             ELSE LineLoop(Tail(lines),
                           [chunks |-> st.chunks,
                            cur |-> st.cur
                                      \o (IF Len(st.cur) > 0 THEN <<NL>> ELSE <<>>)
                                      \o line])

\* A paragraph loop that pushes currentChunk without testing it.
RECURSIVE ParagraphLoopUnguarded(_, _)
ParagraphLoopUnguarded(paragraphs, st) ==
    IF Len(paragraphs) = 0
    THEN Append(st.chunks, st.cur)
    ELSE LET paragraph == Head(paragraphs)
             flushed == Append(st.chunks, st.cur)
         IN  IF Len(st.cur) + Len(paragraph) + 2 > CHUNK_SIZE
             THEN IF Len(paragraph) > CHUNK_SIZE
                  THEN ParagraphLoopUnguarded(Tail(paragraphs),
                         [chunks |-> LineLoop(SplitLines(paragraph),
                                              [chunks |-> flushed, cur |-> <<>>]),
                          cur |-> <<>>])
                  ELSE ParagraphLoopUnguarded(Tail(paragraphs),
                                     [chunks |-> flushed, cur |-> paragraph])
             ELSE ParagraphLoopUnguarded(Tail(paragraphs),
                                [chunks |-> st.chunks,
                                 cur |-> st.cur
                                           \o (IF Len(st.cur) > 0 THEN Para ELSE <<>>)
                                           \o paragraph])

\* The loop over the paragraphs; st is [chunks, cur] with cur = currentChunk.
RECURSIVE ParagraphLoop(_, _)
ParagraphLoop(paragraphs, st) ==
    IF Len(paragraphs) = 0
    THEN IF Len(st.cur) > 0 THEN Append(st.chunks, st.cur) ELSE st.chunks
    ELSE LET paragraph == Head(paragraphs)
             flushed == IF Len(st.cur) > 0
                        THEN Append(st.chunks, st.cur) ELSE st.chunks
         IN  IF Len(st.cur) + Len(paragraph) + 2 > CHUNK_SIZE
             THEN IF Len(paragraph) > CHUNK_SIZE
                  THEN ParagraphLoop(Tail(paragraphs),
                         [chunks |-> LineLoop(SplitLines(paragraph),
                                              [chunks |-> flushed, cur |-> <<>>]),
                          cur |-> <<>>])
                  ELSE ParagraphLoop(Tail(paragraphs),
                                     [chunks |-> flushed, cur |-> paragraph])
             ELSE ParagraphLoop(Tail(paragraphs),
                                [chunks |-> st.chunks,
                                 cur |-> st.cur
                                           \o (IF Len(st.cur) > 0 THEN Para ELSE <<>>)
                                           \o paragraph])

\* A chunker without the early return for texts within the budget.
splitWithoutShortcut(text) ==
    ParagraphLoop(SplitParagraphs(text), [chunks |-> <<>>, cur |-> <<>>])

splitTextIntoChunks(text) ==
    IF Len(text) = 0 \/ Len(text) <= CHUNK_SIZE THEN <<text>>
    ELSE ParagraphLoop(SplitParagraphs(text), [chunks |-> <<>>, cur |-> <<>>])

(* --------------------------- retry policy ----------------------------- *)

\* An error thrown by the external service is known to the client only
\* through errString.includes(marker): it is modelled by the set of the
\* markers its text contains.
Markers == {"429", "RESOURCE_EXHAUSTED", "400", "401", "403"}

ErrorTexts ==
    { {}, {"429"}, {"RESOURCE_EXHAUSTED"}, {"400"}, {"401"}, {"403"}, {"401", "429"} }

\* No error caught (yet) by the current retry() frame.
NoError == {"none"}

\* An error of the parser or the packager: its text holds no marker.
OtherError == {}

\* Nothing has reached the catch block of startProcessing.
NoRaise == [op |-> "none", part |-> 0, cause |-> NoError]

\* An error that reaches startProcessing as it was thrown.
PlainError(e) == [op |-> "none", part |-> 0, cause |-> e]

\* An Error whose message names the part by the loop index.
WrapErrorZeroBased(op, idx, e) == [op |-> op, part |-> idx, cause |-> e]

\* new Error(`Translation failed at part ${i + 1}: ${error.message}`), thrown
\* by the catch block of the chunk loop whose index is idx (0-based).  What the
\* service call and generate() throw are Error instances, so the message is
\* kept and the 'Unknown error' arm is not taken.
WrapError(op, idx, e) == [op |-> op, part |-> idx + 1, cause |-> e]

Services == {"AiService", "GeminiService"}

isRateLimit(e) == "429" \in e \/ "RESOURCE_EXHAUSTED" \in e

\* A fatal class that gives way to the rate-limit class.
isFatalUnlessRateLimited(svc, e) ==
    /\ svc = "AiService"
    /\ ("401" \in e \/ "403" \in e \/ "400" \in e)
    /\ ~("429" \in e \/ "RESOURCE_EXHAUSTED" \in e)

\* AiService only; GeminiService has no fatal class.
isFatal(svc, e) ==
    svc = "AiService" /\ ("401" \in e \/ "403" \in e \/ "400" \in e)

Max(a, b) == IF a >= b THEN a ELSE b

\* A retry() that doubles the delay whatever the error.
NextDelayDoubling(e, delay) == delay * 2

\* nextDelay of retry(), in half milliseconds (delay * 1.5 = 3 * delay / 2).
NextDelay(e, delay) ==
    IF isRateLimit(e)
    THEN Max((3 * delay) \div 2, Ms(RATE_LIMIT_FLOOR))
    ELSE delay * 2

\* A client whose budget depends on the pass.
RetryBudgetByPass(svc, op) ==
    IF op = "translate" THEN GEMINI_RETRIES ELSE AI_RETRIES

\* The default of the `retries` parameter: generate() passes no budget, so
\* translate and proofread share it.
RetryBudget(svc, op) ==
    IF svc = "AiService" THEN AI_RETRIES ELSE GEMINI_RETRIES

\* A retry() that gives up at the first error.
RetryDecisionNever(svc, e, retries) == "throw"

\* What the catch block of retry() does with error e.
RetryDecision(svc, e, retries) ==
    IF retries <= 0 THEN "throw"
    ELSE IF isFatal(svc, e) THEN "throw"
    ELSE "backoff"

(* --------------------------- the book files --------------------------- *)

Languages == {"Chinese (Simplified)", "English"}

(* The classifier of parseEpub.  A title is the sequence of its words, a
   file name (href) the record of its stem and its extension.  The regular
   expressions test how the lower-cased title starts and how the lower-cased
   href ends; a word that starts or ends with another word of the regular
   expressions without being it is listed in Prefixed or Suffixed. *)

\* toLowerCase, on the words that occur with capitals.
Lower(w) ==
    CASE w = "Cover" -> "cover"
      [] w = "Notes" -> "notes"
      [] w = "Chapter" -> "chapter"
      [] w = "One" -> "one"
      [] w = "TOC" -> "toc"
      [] w = "Coverage" -> "coverage"
      [] w = "Title" -> "title"
      [] w = "Page" -> "page"
      [] w = "Essay" -> "essay"
      [] w = "Copyright" -> "copyright"
      [] w = "Text" -> "text"
      [] w = "Discover" -> "discover"
      [] OTHER -> w

LowerTitle(title) == [j \in 1..Len(title) |-> Lower(title[j])]

Prefixed == { <<"coverage", "cover">>, <<"notes", "note">> }
Suffixed == { <<"footnotes", "notes">>, <<"endnotes", "notes">>,
              <<"discover", "cover">> }

WordStarts(w, stem) == w = stem \/ <<w, stem>> \in Prefixed
WordEnds(w, stem) == w = stem \/ <<w, stem>> \in Suffixed

\* Title alternatives that also list the reference word "notes".
SkipTitleAlternativesWithNotes ==
    { <<"copyright">>, <<"cover">>, <<"notes">> }

\* /^(copyright|colophon|imprint|legal|cover|title\s?page|
\*    table\s?of\s?contents|^toc$|dedication)/i, but for ^toc$
SkipTitleAlternatives ==
    { <<"copyright">>, <<"colophon">>, <<"imprint">>, <<"legal">>, <<"cover">>,
      <<"title", "page">>, <<"titlepage">>, <<"table", "of", "contents">>,
      <<"tableofcontents">>, <<"dedication">> }

\* /^(references|bibliography|works\s?cited|sources|acknowledg?ments|credits|
\*    notes|endnotes)/i
RefTitleAlternatives ==
    { <<"references">>, <<"bibliography">>, <<"works", "cited">>, <<"workscited">>,
      <<"sources">>, <<"acknowledgments">>, <<"acknowledments">>, <<"credits">>,
      <<"notes">>, <<"endnotes">> }

\* /(copyright|cover|title[\-_]?page|toc|contents)\.(xhtml|html|xml)$/i
SkipFileWords ==
    { "copyright", "cover", "titlepage", "title-page", "title_page", "toc",
      "contents" }

\* /(references|bibliography|notes)\.(xhtml|html|xml)$/i
RefFileWords == { "references", "bibliography", "notes" }

ClassifiedExtensions == { "xhtml", "html", "xml" }

\* The title starts with the words of alt, the last of them possibly longer.
StartsWithAlt(t, alt) ==
    /\ Len(t) >= Len(alt)
    /\ \A j \in 1..(Len(alt) - 1) : t[j] = alt[j]
    /\ WordStarts(t[Len(alt)], alt[Len(alt)])

TitleSkippable(title) ==
    LET lowerTitle == LowerTitle(title)
    IN  \/ \E alt \in SkipTitleAlternatives : StartsWithAlt(lowerTitle, alt)
        \/ lowerTitle = <<"toc">>

TitleReference(title) ==
    LET lowerTitle == LowerTitle(title)
    IN  \E alt \in RefTitleAlternatives : StartsWithAlt(lowerTitle, alt)

FileSkippable(href) ==
    /\ href.ext \in ClassifiedExtensions
    /\ \E w \in SkipFileWords : WordEnds(Lower(href.stem), w)

FileReference(href) ==
    /\ href.ext \in ClassifiedExtensions
    /\ \E w \in RefFileWords : WordEnds(Lower(href.stem), w)

\* const isSkippable = ...test(lowerTitle) || ...test(lowerHref)
isSkippable(title, href) == TitleSkippable(title) \/ FileSkippable(href)

\* const isReference = ...test(lowerTitle) || ...test(lowerHref)
isReference(title, href) == TitleReference(title) \/ FileReference(href)

Href(stem, ext) == [stem |-> stem, ext |-> ext]

\* chapters.push({ id, fileName: href, title, content, markdown, isSkippable,
\* isReference })
Chapter(id, title, href, markdown) ==
    [id |-> id, title |-> title, fileName |-> href, markdown |-> markdown,
     translatedMarkdown |-> None, proofreadMarkdown |-> None,
     isSkippable |-> isSkippable(title, href),
     isReference |-> isReference(title, href)]

\* Two paragraphs that do not fit one chunk together.
LongText == Rep("a", CHUNK_SIZE - 4) \o Para \o Rep("b", CHUNK_SIZE - 4)
PlainText == Rep("c", MIN_LENGTH)
\* Shorter than MIN_LENGTH once trimmed.
BlankText == <<" ", "x", "y", NL>>

Files == {"novel.epub", "essay.epub", "leaflet.epub", "pamphlet.epub", "empty.epub",
          "nocontainer.epub", "nopackage.epub", "nomanifest.epub",
          "nospine.epub"}

AllDescriptors == {"container", "package", "manifest", "spine"}

\* What the archive holds of META-INF/container.xml with its rootfile, the
\* OPF file it names, and the manifest and spine elements of the OPF.
Descriptors(f) ==
    CASE f = "nocontainer.epub" -> AllDescriptors \ {"container"}
      [] f = "nopackage.epub" -> AllDescriptors \ {"package"}
      [] f = "nomanifest.epub" -> AllDescriptors \ {"manifest"}
      [] f = "nospine.epub" -> AllDescriptors \ {"spine"}
      [] OTHER -> AllDescriptors

\* A parser that also rejects a package without manifest or spine.
ParseThrowsStrict(f) == Descriptors(f) # AllDescriptors

\* The four `throw new Error("Invalid EPUB: ...")` of parseEpub: container.xml,
\* its rootfile and full-path, and the OPF file.
ParseThrows(f) == ~({"container", "package"} \subseteq Descriptors(f))

\* The content documents of each file, in reading order.
Documents(f) ==
    CASE f = "novel.epub" ->
           << Chapter("c1", <<"Chapter", "One">>, Href("ch01", "xhtml"), LongText),
              Chapter("c2", <<"Notes">>, Href("notes", "xhtml"), PlainText),
              Chapter("c3", <<"Chapter", "3">>, Href("blank", "xhtml"), BlankText) >>
      [] f = "essay.epub" ->
           << Chapter("e1", <<"Essay">>, Href("essay", "xhtml"), PlainText),
              Chapter("e2", <<"Copyright">>, Href("copyright", "xhtml"), PlainText) >>
      [] f = "leaflet.epub" ->
           << Chapter("l1", <<"Cover">>, Href("notes", "xhtml"), PlainText) >>
      [] f = "pamphlet.epub" ->
           << Chapter("p1", <<"Cover">>, Href("cover", "xhtml"), BlankText),
              Chapter("p2", <<"Notes">>, Href("notes", "xhtml"), BlankText),
              Chapter("p3", <<"Essay">>, Href("essay", "xhtml"), PlainText) >>
      [] f \in {"nomanifest.epub", "nospine.epub"} ->
           << Chapter("n1", <<"Essay">>, Href("essay", "xhtml"), PlainText) >>
      [] OTHER -> << >>

\* parseEpub on each file: chapters in spine order.  The loop runs over the
\* itemrefs of the spine and skips those the manifest does not resolve, so a
\* package without spine or without manifest yields no chapter.
ParsedChapters(f) ==
    IF {"manifest", "spine"} \subseteq Descriptors(f) THEN Documents(f) ELSE << >>

\* The keys of the image table, in the order the archive lists its files
\* (the insertion order Object.entries follows).  A path is the sequence of
\* its segments.
ParsedImages(f) ==
    CASE f = "novel.epub" ->
           << <<"OEBPS", "images", "fig.png">>, <<"OEBPS", "images", "cover.jpg">> >>
      [] f = "essay.epub" ->
           << <<"OEBPS", "thumbs", "cover.jpg">>, <<"OEBPS", "images", "cover.jpg">> >>
      [] OTHER -> << >>

ParsedCover(svc, f) ==
    IF svc = "AiService" /\ f \in {"novel.epub", "essay.epub"}
    THEN <<"OEBPS", "images", "cover.jpg">> ELSE None

\* The answer of the external service to one chunk.  The service is outside
\* the repository: its text is abstracted to one that depends on the pass and
\* on the language the prompt asks for.
ServiceResponse(op, lang) ==
    IF op = "translate"
    THEN Rep(IF lang = "English" THEN "e" ELSE "z", 7)
    ELSE Rep("p", 7)

(* ------------------------------- state -------------------------------- *)

VARIABLES
    service,        \* which client build runs: AiService or GeminiService
    status,         \* AppStatus
    config,         \* AppConfig (React state)
    progress,       \* <<stepsDone, totalSteps>>: the fraction, times 100
    currentFile,    \* File | null
    downloadUrl,    \* object URL of the generated archive | null
    errLogs,        \* number of 'error' entries in logs
    chapters,       \* chaptersRef.current
    images,         \* imagesRef.current (its keys)
    coverPath,      \* coverPathRef.current
    pc,             \* where startProcessing is suspended, or "idle"
    runConfig,      \* the config captured by the running closure
    i,              \* loop index of startProcessing (1-based)
    k,              \* chunk index inside translateContent / proofreadContent
    acc,            \* translatedChunks / proofreadChunks
    cpc,            \* client position: "call", "backoff", "polite", "none"
    retries,        \* retries parameter of the current retry() frame
    delay,          \* delay parameter of the current retry() frame
    wait,           \* nextDelay of the pending backoff timer
    instruction,    \* instruction argument of translateContent / proofreadContent
    content,        \* content argument of translateContent / proofreadContent
    err,            \* the error caught last, until the user acts again
    inFlight,       \* history: external calls issued and not yet returned
    activeRuns,     \* history: startProcessing invocations not yet returned
    published,      \* history: has this run called setProgress yet
    called,         \* history: <<pass, unit>> pairs called by this run
    recovered,      \* history: has a retried call of this run succeeded
    raised,         \* the Error that reached the catch block of startProcessing
    atStart         \* history: the chapters when this run entered its loop

appVars == <<status, config, progress, currentFile, downloadUrl, errLogs>>
refVars == <<chapters, images, coverPath>>
clientVars == <<k, acc, cpc, retries, delay, wait, instruction, content>>
vars == <<service, status, config, progress, currentFile, downloadUrl, errLogs,
          chapters, images, coverPath, pc, runConfig, i, k, acc, cpc, retries,
          delay, wait, instruction, content, err, inFlight, activeRuns, published, called,
          atStart, recovered, raised>>

NoFile == "null"
\* downloadUrl === null
NoUrl == [docs |-> << >>, language |-> "null", cover |-> None,
          manifestImages |-> << >>, coverMeta |-> None]
Zero == <<0, 1>>
Hundred == <<1, 1>>

IdleStatuses == {"IDLE", "COMPLETED", "ERROR"}
BusyStatuses == {"PARSING", "TRANSLATING", "PROOFREADING", "PACKAGING"}
AwaitPcs == {"parse", "translate", "proofread", "package"}

\* Instruction texts are sequences of pieces; the long constant texts of
\* App.tsx are one piece each.
RECOMMENDED_TRANSLATION_CORE == <<"RECOMMENDED_TRANSLATION_CORE">>
RECOMMENDED_TRANSLATION_PROMPT == <<"RECOMMENDED_TRANSLATION_PROMPT">>
MANDATORY_OUTPUT_RULES == <<"MANDATORY_OUTPUT_RULES">>
RECOMMENDED_PROOFREAD_PROMPT == <<"RECOMMENDED_PROOFREAD_PROMPT">>
DEFAULT_SYSTEM_INSTRUCTION == <<"DEFAULT_CONFIG.systemInstruction">>
DEFAULT_PROOFREAD_INSTRUCTION == <<"DEFAULT_CONFIG.proofreadInstruction">>

\* No call is being made.
NoInstruction == <<"none">>
NoContent == <<"none">>

DEFAULT_CONFIG(svc) ==
    [targetLanguage |-> "Chinese (Simplified)",
     systemInstruction |-> DEFAULT_SYSTEM_INSTRUCTION,
     proofreadInstruction |-> DEFAULT_PROOFREAD_INSTRUCTION,
     enableProofreading |-> TRUE,
     useRecommendedPrompts |-> (svc = "AiService"),
     smartSkip |-> (svc = "AiService")]

Init ==
    /\ service \in Services
    /\ status = "IDLE"
    /\ config = DEFAULT_CONFIG(service)
    /\ progress = Zero
    /\ currentFile = NoFile
    /\ downloadUrl = NoUrl
    /\ errLogs = 0
    /\ chapters = << >>
    /\ images = << >>
    /\ coverPath = None
    /\ pc = "idle"
    /\ runConfig = DEFAULT_CONFIG(service)
    /\ i = 1
    /\ k = 1
    /\ acc = << >>
    /\ cpc = "none"
    /\ retries = 0
    /\ delay = 0
    /\ wait = 0
    /\ instruction = NoInstruction
    /\ content = NoContent
    /\ err = NoError
    /\ inFlight = 0
    /\ activeRuns = 0
    /\ published = FALSE
    /\ called = {}
    /\ atStart = << >>
    /\ recovered = FALSE
    /\ raised = NoRaise

(* ------------------------ derived run values -------------------------- *)

\* The build around GeminiService has no smart-skip branch and no toggle.
SmartSkipOn(cfg) == cfg.smartSkip

StepsPerUnit(cfg) == IF cfg.enableProofreading THEN 2 ELSE 1

\* const currentTotalSteps
TotalSteps(cfg, chs) == Len(chs) * StepsPerUnit(cfg)

\* One summand of the reduce that yields stepsDone / stepsDoneAfter.
UnitSteps(cfg, c) ==
    IF SmartSkipOn(cfg) /\ c.isSkippable THEN StepsPerUnit(cfg)
    ELSE (IF Truthy(c.translatedMarkdown) THEN 1 ELSE 0)
           + (IF Truthy(c.proofreadMarkdown) THEN 1 ELSE 0)

RECURSIVE SumSteps(_, _, _)
SumSteps(cfg, chs, n) ==
    IF n = 0 THEN 0 ELSE SumSteps(cfg, chs, n - 1) + UnitSteps(cfg, chs[n])

StepsDone(cfg, chs) == SumSteps(cfg, chs, Len(chs))

\* The argument of setProgress in the loop, as the fraction it multiplies by 100.
LoopProgress(cfg, chs) == <<StepsDone(cfg, chs), TotalSteps(cfg, chs)>>

\* A loop without the test for short units.
NeverShort(c) == FALSE

\* !chapter.markdown || chapter.markdown.trim().length < 10
IsShort(c) == ~Truthy(c.markdown) \/ Len(Trim(c.markdown)) < MIN_LENGTH

\* A proofreading pass that is handed the original text.
ContentAlwaysOriginal(op, unit) == chapters[unit].markdown

\* The first argument of translateContent (chapter.markdown) and of
\* proofreadContent (chapter.translatedMarkdown!).
ContentFor(op, unit) ==
    IF op = "translate" THEN chapters[unit].markdown
    ELSE chapters[unit].translatedMarkdown

\* The text handed to the client by the pass the run is suspended in.
Content == ContentFor(pc, i)

\* const chunks = this.splitTextIntoChunks(content)
Chunks == splitTextIntoChunks(content)

\* A packager that is handed every unit.
PacksAll(cfg, chs) == chs

\* chaptersToPack
ChaptersToPack(cfg, chs) ==
    IF SmartSkipOn(cfg) THEN SelectSeq(chs, LAMBDA c : ~c.isSkippable) ELSE chs

\* A writer that prefers the translated text.
TranslatedFirst(ch) ==
    IF Truthy(ch.translatedMarkdown) THEN ch.translatedMarkdown
    ELSE IF Truthy(ch.proofreadMarkdown) THEN ch.proofreadMarkdown
    ELSE ch.markdown

\* const contentToUse = ch.proofreadMarkdown || ch.translatedMarkdown || ch.markdown || ""
ContentToUse(ch) ==
    IF Truthy(ch.proofreadMarkdown) THEN ch.proofreadMarkdown
    ELSE IF Truthy(ch.translatedMarkdown) THEN ch.translatedMarkdown
    ELSE IF Truthy(ch.markdown) THEN ch.markdown
    ELSE << >>

\* path.split('/').pop()
FileNameOf(path) == path[Len(path)]

\* const imgId = `img_${fileName.replace(/\W/g, '_')}`
ImgId(fileName) == <<"img", fileName>>

\* The loop over Object.entries(originalImages): the image entries of the
\* manifest, one per file name not yet processed, the entry of the cover
\* path marked with the cover-image property.
RECURSIVE ManifestImages(_, _, _)
ManifestImages(imgs, cover, processedImageNames) ==
    IF Len(imgs) = 0 THEN << >>
    ELSE LET path == Head(imgs)
             fileName == FileNameOf(path)
         IN  IF fileName \notin processedImageNames
             THEN << [id |-> ImgId(fileName), href |-> <<"images", fileName>>,
                      coverImage |-> (cover # None /\ path = cover)] >>
                    \o ManifestImages(Tail(imgs), cover,
                                      processedImageNames \cup {fileName})
             ELSE ManifestImages(Tail(imgs), cover, processedImageNames)

\* generatedCoverId, as the ids of the entries that set it.
GeneratedCoverIds(entries) ==
    {entries[n].id : n \in {m \in DOMAIN entries : entries[m].coverImage}}

\* const coverMeta = generatedCoverId ? `<meta name="cover" .../>` : ''
CoverMeta(entries) ==
    IF GeneratedCoverIds(entries) = {} THEN None
    ELSE CHOOSE id \in GeneratedCoverIds(entries) : TRUE

\* The archive generateEpub builds, reduced to its per-unit documents, the
\* image entries of its manifest and its cover metadata.
generateEpub(chs, imgs, lang, cover) ==
    [docs |-> [n \in 1..Len(chs) |->
                 [file |-> n, title |-> chs[n].title, body |-> ContentToUse(chs[n])]],
     language |-> lang,
     cover |-> cover,
     manifestImages |-> ManifestImages(imgs, cover, {}),
     coverMeta |-> CoverMeta(ManifestImages(imgs, cover, {}))]

(* ---------------------------- UI conditions --------------------------- *)

\* Event handlers run to completion: none starts while the synchronous part
\* of startProcessing (pc "loop" or "progress") is still executing.
HandlerMayRun == pc \in AwaitPcs \cup {"idle"}

\* A page that never disables its inputs.
ControlsNeverDisabled == FALSE

\* disabled={status !== IDLE && status !== COMPLETED && status !== ERROR}
ControlsDisabled == status \notin IdleStatuses

\* A Resume button shown for every status but Idle.
ResumeVisibleWhileBusy == currentFile # NoFile /\ status # "IDLE"

\* A Restart button shown whatever the status.
RestartVisibleAlways == currentFile # NoFile

\* A download link shown whenever an archive is stored.
DownloadOfferedAlways == downloadUrl # NoUrl

\* {status === AppStatus.COMPLETED && downloadUrl && ( <a href={downloadUrl} ...
DownloadOffered == status = "COMPLETED" /\ downloadUrl # NoUrl

\* A page without the Resume button.
ResumeHidden == FALSE

ClearVisible == currentFile # NoFile /\ status \in IdleStatuses
StartVisible == currentFile # NoFile /\ status = "IDLE"
ResumeVisible == currentFile # NoFile /\ status = "ERROR"
RestartVisible == currentFile # NoFile /\ status = "COMPLETED"

(* ------------------------------ handlers ------------------------------ *)

\* The locals of startProcessing and of the client go out of scope when the
\* run returns.
DropLocals ==
    /\ i' = 1
    /\ k' = 1
    /\ acc' = << >>
    /\ cpc' = "none"
    /\ retries' = 0
    /\ delay' = 0
    /\ wait' = 0
    /\ instruction' = NoInstruction
    /\ content' = NoContent

\* The history of a finished run is kept until the user acts again.
ForgetRun(cfg) ==
    /\ runConfig' = cfg
    /\ published' = FALSE
    /\ called' = {}
    /\ atStart' = << >>
    /\ err' = NoError
    /\ recovered' = FALSE
    /\ raised' = NoRaise

handleFileSelect(file) ==
    /\ HandlerMayRun
    /\ ~ControlsDisabled
    /\ currentFile' = file
    /\ downloadUrl' = NoUrl
    /\ errLogs' = 0
    /\ chapters' = << >>
    /\ images' = << >>
    /\ coverPath' = None
    /\ progress' = Zero
    /\ status' = "IDLE"
    /\ ForgetRun(config)
    /\ UNCHANGED <<service, config, pc, i, clientVars, inFlight, activeRuns>>

\* A reset that keeps the parsed book.
handleResetKeepingUnits ==
    /\ HandlerMayRun
    /\ ClearVisible
    /\ downloadUrl' = NoUrl
    /\ errLogs' = 0
    /\ progress' = Zero
    /\ status' = "IDLE"
    /\ ForgetRun(config)
    /\ UNCHANGED <<service, config, currentFile, refVars, pc, i, clientVars,
                   inFlight, activeRuns>>

handleReset ==
    /\ HandlerMayRun
    /\ ClearVisible
    /\ downloadUrl' = NoUrl
    /\ errLogs' = 0
    /\ chapters' = << >>
    /\ images' = << >>
    /\ coverPath' = None
    /\ progress' = Zero
    /\ status' = "IDLE"
    /\ ForgetRun(config)
    /\ UNCHANGED <<service, config, currentFile, pc, i, clientVars, inFlight,
                   activeRuns>>

\* SettingsPanel.handleChange for the language select and the three toggles.
Toggles == {"enableProofreading", "smartSkip", "useRecommendedPrompts"}

EditableFields ==
    IF service = "AiService"
    THEN {"targetLanguage"} \cup Toggles
    ELSE {"targetLanguage"} \cup (Toggles \ {"smartSkip"})

handleChange(field, value) ==
    /\ HandlerMayRun
    /\ ~ControlsDisabled
    /\ field \in EditableFields
    /\ config[field] # value
    /\ config' = [config EXCEPT ![field] = value]
    /\ ForgetRun(config')
    /\ UNCHANGED <<service, status, progress, currentFile, downloadUrl, errLogs,
                   refVars, pc, i, clientVars, inFlight, activeRuns>>

\* A run that parses whatever is stored.
ParsesAlways(chs) == TRUE

\* if (chaptersRef.current.length === 0)
NeedsParsing(chs) == Len(chs) = 0

\* startProcessing up to its first branch: the closure captures config; an
\* empty unit collection sends it to the parser, a populated one resumes.
\* A file the parser rejects is given up after MaxFail errors.
startProcessing ==
    /\ currentFile # NoFile
    /\ (NeedsParsing(chapters) /\ ParseThrows(currentFile)) => errLogs < MaxFail
    /\ runConfig' = config
    /\ activeRuns' = activeRuns + 1
    /\ published' = FALSE
    /\ called' = {}
    /\ atStart' = chapters
    /\ err' = NoError
    /\ recovered' = FALSE
    /\ raised' = NoRaise
    /\ i' = 1
    /\ IF NeedsParsing(chapters)
       THEN status' = "PARSING" /\ pc' = "parse"
       ELSE status' = status /\ pc' = "loop"
    /\ UNCHANGED <<service, config, progress, currentFile, downloadUrl, errLogs,
                   refVars, clientVars, inFlight>>

StartButton == HandlerMayRun /\ StartVisible /\ startProcessing
ResumeButton == HandlerMayRun /\ ResumeVisible /\ startProcessing
RestartButton == HandlerMayRun /\ RestartVisible /\ startProcessing

(* ----------------------- startProcessing, continued ------------------- *)

\* A catch block that also discards the parsed book, as handleReset does.
CatchErrorClearing(e) ==
    /\ err' = e
    /\ status' = "ERROR"
    /\ errLogs' = errLogs + 1
    /\ pc' = "idle"
    /\ activeRuns' = activeRuns - 1
    /\ DropLocals
    /\ chapters' = << >>
    /\ images' = << >>
    /\ coverPath' = None
    /\ UNCHANGED <<service, config, progress, currentFile, downloadUrl,
                   runConfig, published, called, recovered, atStart>>

\* A catch block that reports the run as completed.
CatchErrorCompleting(e) ==
    /\ err' = e
    /\ status' = "COMPLETED"
    /\ errLogs' = errLogs + 1
    /\ pc' = "idle"
    /\ activeRuns' = activeRuns - 1
    /\ DropLocals
    /\ UNCHANGED <<service, config, progress, currentFile, downloadUrl, refVars,
                   runConfig, published, called, recovered, atStart>>

\* A failure that stores the outputs of the chunks obtained so far.
CatchErrorKeepingPartial(e) ==
    /\ err' = e
    /\ status' = "ERROR"
    /\ errLogs' = errLogs + 1
    /\ pc' = "idle"
    /\ activeRuns' = activeRuns - 1
    /\ DropLocals
    /\ chapters' = IF acc = << >> THEN chapters
                   ELSE IF pc = "translate"
                        THEN [chapters EXCEPT ![i].translatedMarkdown = Join(acc, Para)]
                        ELSE [chapters EXCEPT ![i].proofreadMarkdown = Join(acc, Para)]
    /\ UNCHANGED <<service, config, progress, currentFile, downloadUrl, images,
                   coverPath, runConfig, published, called, recovered, atStart>>

\* The catch block of startProcessing, reached by error e.
CatchError(e) ==
    /\ err' = e
    /\ status' = "ERROR"
    /\ errLogs' = errLogs + 1
    /\ pc' = "idle"
    /\ activeRuns' = activeRuns - 1
    /\ DropLocals
    /\ UNCHANGED <<service, config, progress, currentFile, downloadUrl, refVars,
                   runConfig, published, called, recovered, atStart>>

ParseDone ==
    /\ pc = "parse"
    /\ ~ParseThrows(currentFile)
    /\ chapters' = ParsedChapters(currentFile)
    /\ images' = ParsedImages(currentFile)
    /\ coverPath' = ParsedCover(service, currentFile)
    /\ atStart' = chapters'
    /\ pc' = "loop"
    /\ i' = 1
    /\ UNCHANGED <<service, appVars, runConfig, clientVars, err, raised, inFlight,
                   activeRuns, published, called, recovered>>

\* parseEpub throws (missing container, rootfile or package descriptor).
ParseFail ==
    /\ pc = "parse"
    /\ ParseThrows(currentFile)
    /\ UNCHANGED inFlight
    /\ raised' = PlainError(OtherError)
    /\ CatchError(OtherError)

\* Rules appended only to the preset.
RulesAfterPresetOnly(svc, cfg) ==
    IF cfg.useRecommendedPrompts
    THEN RECOMMENDED_TRANSLATION_CORE \o <<"\n\n">> \o MANDATORY_OUTPUT_RULES
    ELSE cfg.systemInstruction

\* effectiveSystemInstruction.  The AiService build appends the output rules
\* to whichever base it has chosen; the GeminiService build appends nothing.
EffectiveSystemInstruction(svc, cfg) ==
    IF svc = "AiService"
    THEN (IF cfg.useRecommendedPrompts
          THEN RECOMMENDED_TRANSLATION_CORE ELSE cfg.systemInstruction)
           \o <<"\n\n">> \o MANDATORY_OUTPUT_RULES
    ELSE IF cfg.useRecommendedPrompts
         THEN RECOMMENDED_TRANSLATION_PROMPT ELSE cfg.systemInstruction

\* effectiveProofreadInstruction
EffectiveProofreadInstruction(svc, cfg) ==
    IF cfg.useRecommendedPrompts
    THEN RECOMMENDED_PROOFREAD_PROMPT ELSE cfg.proofreadInstruction

\* The instruction startProcessing passes with the text of a pass.
InstructionFor(op) ==
    IF op = "translate" THEN EffectiveSystemInstruction(service, runConfig)
    ELSE EffectiveProofreadInstruction(service, runConfig)

\* this.generate(...) for chunk k: retry(operation) with the default budget
\* and delay, whose first statement issues the external call.
BeginChunk(op, unit) ==
    /\ retries' = RetryBudget(service, op)
    /\ delay' = Ms(INITIAL_DELAY)
    /\ cpc' = "call"
    /\ inFlight' = inFlight + 1
    /\ called' = called \cup {<<op, unit>>}
    /\ instruction' = InstructionFor(op)
    /\ content' = ContentFor(op, unit)
    /\ UNCHANGED <<wait, err, raised, recovered>>

\* for-loop exit: packaging starts.
LoopExit ==
    /\ pc = "loop"
    /\ i > Len(chapters)
    /\ status' = "PACKAGING"
    /\ pc' = "package"
    /\ UNCHANGED <<service, config, progress, currentFile, downloadUrl, errLogs,
                   refVars, runConfig, i, clientVars, err, raised, inFlight, activeRuns,
                   published, called, recovered, atStart>>

\* A loop that forgets its i++.
SameUnit(n) == n

\* i++ of the for loop over the units.
NextUnit(n) == n + 1

\* A loop that looks at the reference flag first.
ReferenceFirst(cfg, c) == SmartSkipOn(cfg) /\ c.isSkippable /\ ~c.isReference

\* if (config.smartSkip) { if (chapter.isSkippable) continue; ... }: tested
\* before the reference flag is looked at.
IsSmartSkipped(cfg, c) == SmartSkipOn(cfg) /\ c.isSkippable

\* The two `continue` branches: short text, or smart-skipped front matter.
LoopSkip ==
    /\ pc = "loop"
    /\ i <= Len(chapters)
    /\ \/ IsShort(chapters[i])
       \/ IsSmartSkipped(runConfig, chapters[i])
    /\ i' = NextUnit(i)
    /\ UNCHANGED <<service, appVars, refVars, pc, runConfig, clientVars, err, raised,
                   inFlight, activeRuns, published, called, recovered, atStart>>

\* A reference branch without the check of the stored text.
KeepsEveryReference(cfg, c) == SmartSkipOn(cfg) /\ c.isReference

\* A loop that translates whatever is stored.
TranslatesAlways(c) == TRUE

\* A loop that proofreads whatever is stored.
ProofreadsWhenEnabled(cfg, c) == cfg.enableProofreading

\* A loop without the reference branch.
KeepsNoReference(cfg, c) == FALSE

\* The reference branch: keep the original as both texts, once.
KeepsReference(cfg, c) ==
    SmartSkipOn(cfg) /\ c.isReference /\ ~Truthy(c.translatedMarkdown)

\* if (chapter.translatedMarkdown) { } else { translate }
NeedsTranslation(c) == ~Truthy(c.translatedMarkdown)

\* A loop without the proofreading branch.
NeverProofreads(cfg, c) == FALSE

\* if (config.enableProofreading) if (chapter.proofreadMarkdown) { } else { proofread }
NeedsProofreading(cfg, c) == cfg.enableProofreading /\ ~Truthy(c.proofreadMarkdown)

\* One loop iteration up to the translation branch.
LoopUnit ==
    /\ pc = "loop"
    /\ i <= Len(chapters)
    /\ ~IsShort(chapters[i])
    /\ ~IsSmartSkipped(runConfig, chapters[i])
    /\ LET c == chapters[i]
           kept == IF KeepsReference(runConfig, c)
                   THEN [c EXCEPT !.translatedMarkdown = c.markdown,
                                  !.proofreadMarkdown = c.markdown]
                   ELSE c
       IN  /\ chapters' = [chapters EXCEPT ![i] = kept]
           /\ IF NeedsTranslation(kept)
              THEN /\ status' = "TRANSLATING"
                   /\ pc' = "translate"
                   /\ k' = 1
                   /\ acc' = << >>
                   /\ BeginChunk("translate", i)
              ELSE /\ pc' = "progress"
                   /\ UNCHANGED <<status, clientVars, err, raised, inFlight, called,
                                  recovered>>
    /\ UNCHANGED <<service, config, progress, currentFile, downloadUrl, errLogs,
                   images, coverPath, runConfig, i, activeRuns, published, atStart>>

\* "Update progress", then the proofreading branch.
ProgressStep ==
    /\ pc = "progress"
    /\ progress' = LoopProgress(runConfig, chapters)
    /\ published' = TRUE
    /\ IF NeedsProofreading(runConfig, chapters[i])
       THEN /\ status' = "PROOFREADING"
            /\ pc' = "proofread"
            /\ k' = 1
            /\ acc' = << >>
            /\ BeginChunk("proofread", i)
            /\ i' = i
       ELSE /\ pc' = "loop"
            /\ i' = NextUnit(i)
            /\ UNCHANGED <<status, clientVars, err, raised, inFlight, called,
                                  recovered>>
    /\ UNCHANGED <<service, config, currentFile, downloadUrl, errLogs, refVars,
                   runConfig, activeRuns, atStart>>

(* ------------------------------ the client ---------------------------- *)

\* The external call returns a non-empty text: retry() and generate() return
\* it, the chunk loop pushes it and goes on to the next chunk or joins.
CallReturns ==
    /\ pc \in {"translate", "proofread"}
    /\ cpc = "call"
    /\ inFlight' = inFlight - 1
    /\ retries' = 0
    /\ delay' = 0
    /\ recovered' = (recovered \/ retries < RetryBudget(service, pc))
    /\ LET op == pc
           results == Append(acc, ServiceResponse(op, runConfig.targetLanguage))
       IN  IF k < Len(Chunks)
           THEN /\ acc' = results
                /\ k' = k + 1
                /\ cpc' = "polite"
                /\ UNCHANGED <<status, progress, chapters, pc, i, published,
                               instruction, content>>
           ELSE /\ acc' = << >>
                /\ instruction' = NoInstruction
                /\ content' = NoContent
                /\ k' = 1
                /\ cpc' = "none"
                /\ IF op = "translate"
                   THEN /\ chapters' = [chapters EXCEPT
                                          ![i].translatedMarkdown = Join(results, Para)]
                        /\ pc' = "progress"
                        /\ UNCHANGED <<progress, published, i>>
                   ELSE /\ chapters' = [chapters EXCEPT
                                          ![i].proofreadMarkdown = Join(results, Para)]
                        /\ progress' = LoopProgress(runConfig, chapters')
                        /\ published' = TRUE
                        /\ pc' = "loop"
                        /\ i' = NextUnit(i)
                /\ UNCHANGED status
    /\ UNCHANGED <<service, config, currentFile, downloadUrl, errLogs, images,
                   coverPath, runConfig, wait, err, raised, activeRuns, called, atStart>>

\* The external call fails with error e (an empty response is thrown as an
\* error too): the catch block of retry() backs off or rethrows; a rethrown
\* error leaves the chunk loop and reaches the catch block of startProcessing.
CallFails(e) ==
    /\ pc \in {"translate", "proofread"}
    /\ cpc = "call"
    /\ errLogs < MaxFail
    /\ inFlight' = inFlight - 1
    /\ IF RetryDecision(service, e, retries) = "throw"
       THEN /\ raised' = WrapError(pc, k - 1, e)
            /\ CatchError(e)
       ELSE /\ err' = e
            /\ UNCHANGED raised
            /\ wait' = NextDelay(e, delay)
            /\ cpc' = "backoff"
            /\ UNCHANGED <<service, appVars, refVars, pc, runConfig, i, k, acc,
                           retries, delay, instruction, content, activeRuns, published, called, recovered, atStart>>

\* The backoff timer fires: retry(operation, retries - 1, nextDelay).
BackoffDone ==
    /\ pc \in {"translate", "proofread"}
    /\ cpc = "backoff"
    /\ retries' = retries - 1
    /\ delay' = wait
    /\ wait' = 0
    /\ err' = NoError
    /\ cpc' = "call"
    /\ UNCHANGED raised
    /\ inFlight' = inFlight + 1
    /\ UNCHANGED <<service, appVars, refVars, pc, runConfig, i, k, acc, instruction, content,
                   activeRuns, published, called, recovered, atStart>>

\* The politeness delay before chunk k > 1 is over: generate() for chunk k.
PoliteDone ==
    /\ pc \in {"translate", "proofread"}
    /\ cpc = "polite"
    /\ BeginChunk(pc, i)
    /\ UNCHANGED <<service, appVars, refVars, pc, runConfig, i, k, acc, activeRuns,
                   published, atStart>>

(* ------------------------------ packaging ----------------------------- *)

\* A packager that uses up the cover reference.
PackageDoneConsumingCover ==
    /\ pc = "package"
    /\ downloadUrl' = generateEpub(ChaptersToPack(runConfig, chapters), images,
                                   runConfig.targetLanguage, coverPath)
    /\ coverPath' = None
    /\ progress' = Hundred
    /\ published' = TRUE
    /\ status' = "COMPLETED"
    /\ pc' = "idle"
    /\ activeRuns' = activeRuns - 1
    /\ DropLocals
    /\ UNCHANGED <<service, config, currentFile, errLogs, chapters, images,
                   runConfig, err, raised, inFlight, called, recovered, atStart>>

PackageDone ==
    /\ pc = "package"
    /\ downloadUrl' = generateEpub(ChaptersToPack(runConfig, chapters), images,
                                   runConfig.targetLanguage, coverPath)
    /\ progress' = Hundred
    /\ published' = TRUE
    /\ status' = "COMPLETED"
    /\ pc' = "idle"
    /\ activeRuns' = activeRuns - 1
    /\ DropLocals
    /\ UNCHANGED <<service, config, currentFile, errLogs, refVars, runConfig,
                   err, raised, inFlight, called, recovered, atStart>>

PackageFail ==
    /\ pc = "package"
    /\ errLogs < MaxFail
    /\ UNCHANGED inFlight
    /\ raised' = PlainError(OtherError)
    /\ CatchError(OtherError)

(* --------------------------- specifications --------------------------- *)

Next ==
    \/ \E f \in Files : handleFileSelect(f)
    \/ handleReset
    \/ \E lang \in Languages : handleChange("targetLanguage", lang)
    \/ \E field \in Toggles, value \in BOOLEAN : handleChange(field, value)
    \/ StartButton
    \/ ResumeButton
    \/ RestartButton
    \/ ParseDone
    \/ ParseFail
    \/ LoopExit
    \/ LoopSkip
    \/ LoopUnit
    \/ ProgressStep
    \/ CallReturns
    \/ \E e \in ErrorTexts : CallFails(e)
    \/ BackoffDone
    \/ PoliteDone
    \/ PackageDone
    \/ PackageFail

Spec == Init /\ [][Next]_vars

\* The page built around AiService.
InitAiService == Init /\ service = "AiService"

SpecAiService == InitAiService /\ [][Next]_vars

\* The steps a started run takes by itself: the continuations of its awaits
\* (parser, external call, timers, packager) and its synchronous code.
RunStep ==
    \/ ParseDone
    \/ ParseFail
    \/ LoopExit
    \/ LoopSkip
    \/ LoopUnit
    \/ ProgressStep
    \/ CallReturns
    \/ \E e \in ErrorTexts : CallFails(e)
    \/ BackoffDone
    \/ PoliteDone
    \/ PackageDone
    \/ PackageFail

\* The page with the settings left as they are.
NextUnedited ==
    \/ \E f \in Files : handleFileSelect(f)
    \/ handleReset
    \/ StartButton
    \/ ResumeButton
    \/ RestartButton
    \/ RunStep

\* A user who chooses one file, starts it, and answers every Error with
\* Resume and with nothing else.
NextResuming ==
    \/ \E f \in Files : currentFile = NoFile /\ handleFileSelect(f)
    \/ StartButton
    \/ ResumeButton
    \/ RunStep

\* Every awaited promise settles, and the user presses Resume whenever it is
\* offered.
ResumingSpec ==
    Init /\ [][NextResuming]_vars /\ WF_vars(RunStep) /\ WF_vars(ResumeButton)

\* Every awaited promise settles and every timer fires: a run that can take
\* a step eventually takes one.
FairSpec == Init /\ [][NextUnedited]_vars /\ WF_vars(RunStep)

(* ------------------- the chunker on arbitrary texts ------------------- *)

\* The texts of at most MaxText characters over newline and letters; the
\* letters cycle through a, b, c so that a lost, repeated or moved letter
\* shows.
Letters == <<"a", "b", "c">>

Label(shape) ==
    [j \in 1..Len(shape) |->
        IF shape[j] = NL THEN NL
        ELSE Letters[(Cardinality({m \in 1..j : shape[m] # NL}) % 3) + 1]]

Texts ==
    {Label(shape) : shape \in UNION {[1..n -> {"x", NL}] : n \in 0..MaxText}}

\* startProcessing is suspended in translateContent for the only unit of a
\* book whose text is any of Texts; the service is a stub that echoes the
\* chunk it is given.
InitChunking ==
    /\ service = "AiService"
    /\ status = "TRANSLATING"
    /\ config = DEFAULT_CONFIG(service)
    /\ progress = Zero
    /\ currentFile = "text.epub"
    /\ downloadUrl = NoUrl
    /\ errLogs = 0
    /\ chapters \in {<<Chapter("t1", <<"Text">>, Href("text", "xhtml"), t)>> : t \in Texts}
    /\ images = << >>
    /\ coverPath = None
    /\ pc = "split"
    /\ runConfig = DEFAULT_CONFIG(service)
    /\ i = 1
    /\ k = 1
    /\ acc = << >>
    /\ cpc = "none"
    /\ retries = 0
    /\ delay = 0
    /\ wait = 0
    /\ instruction = NoInstruction
    /\ content = chapters[1].markdown
    /\ err = NoError
    /\ inFlight = 0
    /\ activeRuns = 1
    /\ published = FALSE
    /\ called = {}
    /\ atStart = chapters
    /\ recovered = FALSE
    /\ raised = NoRaise

\* translateContent with the echoing stub: every chunk of the text comes back
\* as it was sent, so translatedChunks equals chunks.
SplitText ==
    /\ pc = "split"
    /\ acc' = splitTextIntoChunks(content)
    /\ pc' = "join"
    /\ UNCHANGED <<service, appVars, refVars, runConfig, i, k, cpc, retries, delay,
                   wait, instruction, content, err, inFlight, activeRuns, published, called, atStart,
                   recovered, raised>>

\* return translatedChunks.join('\n\n'), stored by startProcessing.
JoinChunks ==
    /\ pc = "join"
    /\ chapters' = [chapters EXCEPT ![i].translatedMarkdown = Join(acc, Para)]
    /\ pc' = "echoed"
    /\ UNCHANGED <<service, appVars, images, coverPath, runConfig, i, clientVars,
                   err, inFlight, activeRuns, published, called, atStart,
                   recovered, raised>>

NextChunking ==
    \/ SplitText
    \/ JoinChunks

SpecChunking == InitChunking /\ [][NextChunking]_vars

(* ----------------- the classifier on arbitrary units ------------------ *)

TitleWords ==
    {"Cover", "Notes", "Chapter", "One", "TOC", "Coverage", "Title", "Page"}

Titles == UNION {[1..n -> TitleWords] : n \in 1..MaxTitle}

Hrefs ==
    {Href(stem, ext) : stem \in {"ch01", "notes", "cover", "toc", "footnotes",
                                 "Discover"},
                       ext \in {"xhtml", "html", "htm"}}

\* startProcessing is suspended in parseEpub, which has read no spine item
\* yet.
InitClassifier ==
    /\ service \in Services
    /\ status = "PARSING"
    /\ config = DEFAULT_CONFIG(service)
    /\ progress = Zero
    /\ currentFile = "any.epub"
    /\ downloadUrl = NoUrl
    /\ errLogs = 0
    /\ chapters = << >>
    /\ images = << >>
    /\ coverPath = None
    /\ pc = "parse"
    /\ runConfig = DEFAULT_CONFIG(service)
    /\ i = 1
    /\ k = 1
    /\ acc = << >>
    /\ cpc = "none"
    /\ retries = 0
    /\ delay = 0
    /\ wait = 0
    /\ instruction = NoInstruction
    /\ content = NoContent
    /\ err = NoError
    /\ inFlight = 0
    /\ activeRuns = 1
    /\ published = FALSE
    /\ called = {}
    /\ atStart = << >>
    /\ recovered = FALSE
    /\ raised = NoRaise

\* One pass of the loop over the spine: the first item, with any title and
\* any file name, is classified and pushed.
ClassifyUnit(title, href) ==
    /\ pc = "parse"
    /\ chapters = << >>
    /\ chapters' = <<Chapter("u1", title, href, PlainText)>>
    /\ UNCHANGED <<service, appVars, images, coverPath, pc, runConfig, i,
                   clientVars, err, inFlight, activeRuns, published, called,
                   atStart, recovered, raised>>

NextClassifier == \E title \in Titles, href \in Hrefs : ClassifyUnit(title, href)

SpecClassifier == InitClassifier /\ [][NextClassifier]_vars

(* --------------- the instructions under arbitrary settings ------------ *)

\* What the user may have typed into the two instruction fields.
UserSystemTexts == {DEFAULT_SYSTEM_INSTRUCTION, <<"Translate", "plainly">>, << >>}
UserProofreadTexts == {DEFAULT_PROOFREAD_INSTRUCTION, <<"Fix", "typos">>, << >>}

\* The settings were edited before a file is chosen: any instruction texts,
\* recommended mode on or off, proofreading on or off.
InitInstructions ==
    /\ service \in Services
    /\ status = "IDLE"
    /\ config \in {[DEFAULT_CONFIG(service) EXCEPT
                      !.systemInstruction = s, !.proofreadInstruction = p,
                      !.useRecommendedPrompts = r, !.enableProofreading = e] :
                   s \in UserSystemTexts, p \in UserProofreadTexts,
                   r \in BOOLEAN, e \in BOOLEAN}
    /\ progress = Zero
    /\ currentFile = NoFile
    /\ downloadUrl = NoUrl
    /\ errLogs = 0
    /\ chapters = << >>
    /\ images = << >>
    /\ coverPath = None
    /\ pc = "idle"
    /\ runConfig = config
    /\ i = 1
    /\ k = 1
    /\ acc = << >>
    /\ cpc = "none"
    /\ retries = 0
    /\ delay = 0
    /\ wait = 0
    /\ instruction = NoInstruction
    /\ content = NoContent
    /\ err = NoError
    /\ inFlight = 0
    /\ activeRuns = 0
    /\ published = FALSE
    /\ called = {}
    /\ atStart = << >>
    /\ recovered = FALSE
    /\ raised = NoRaise

\* A file is chosen and processed without failures.
NextInstructions ==
    \/ \E f \in Files : handleFileSelect(f)
    \/ StartButton
    \/ ParseDone
    \/ LoopExit
    \/ LoopSkip
    \/ LoopUnit
    \/ ProgressStep
    \/ CallReturns
    \/ PoliteDone
    \/ PackageDone

SpecInstructions == InitInstructions /\ [][NextInstructions]_vars

(* ------------------------------ properties ---------------------------- *)

\* A run has just completed and its history has not been forgotten yet.
RunCompleted ==
    /\ status = "COMPLETED"
    /\ pc = "idle"
    /\ Len(atStart) = Len(chapters)

\* C1: once the translated text or the proofread text of a unit is set, no
\* step of any run changes it, whatever the configuration of the later run;
\* only the reset handlers, which discard the units, remove it.
C1_WriteOnce ==
    [][\A u \in (DOMAIN chapters) \cap (DOMAIN chapters') :
         /\ chapters[u].translatedMarkdown # None
              => chapters'[u].translatedMarkdown = chapters[u].translatedMarkdown
         /\ chapters[u].proofreadMarkdown # None
              => chapters'[u].proofreadMarkdown = chapters[u].proofreadMarkdown]_vars

\* C1 witness: a run in Chinese completed over a unit whose stored translation
\* was made in English, and the English text is still there.
C1_Witness ==
    /\ RunCompleted
    /\ runConfig.targetLanguage = "Chinese (Simplified)"
    /\ \E u \in DOMAIN chapters :
         chapters[u].translatedMarkdown = ServiceResponse("translate", "English")

\* C2: a run that ends without reaching Completed ends in Error, and the step
\* that ends it leaves the units, the assets and the cover reference as they
\* were.
C2_FailureKeepsWork ==
    [][(pc # "idle" /\ pc' = "idle" /\ status' # "COMPLETED")
         => /\ status' = "ERROR"
            /\ chapters' = chapters
            /\ images' = images
            /\ coverPath' = coverPath]_vars

\* C2 witness: a run failed in the proofreading pass of a unit whose
\* translation, stored by the same run, is retained.
C2_Witness ==
    /\ status = "ERROR"
    /\ pc = "idle"
    /\ Len(atStart) = Len(chapters)
    /\ \E u \in DOMAIN chapters :
         /\ atStart[u].translatedMarkdown = None
         /\ chapters[u].translatedMarkdown # None
         /\ chapters[u].proofreadMarkdown = None
         /\ <<"proofread", u>> \in called

\* The passes the configuration enables.
EnabledPasses(cfg) ==
    {"translate"} \cup (IF cfg.enableProofreading THEN {"proofread"} ELSE {})

\* The number of leading units that hold both texts.
RECURSIVE LeadingComplete(_, _)
LeadingComplete(chs, n) ==
    IF n < Len(chs)
       /\ chs[n + 1].translatedMarkdown # None
       /\ chs[n + 1].proofreadMarkdown # None
    THEN LeadingComplete(chs, n + 1)
    ELSE n

\* C3 as stated: a run over N units of which the first K hold both texts
\* calls the service for exactly the other N - K units, once per enabled pass.
C3_AsStated ==
    RunCompleted =>
        called = {<<op, u>> : op \in EnabledPasses(runConfig),
                              u \in (LeadingComplete(atStart, 0) + 1)..Len(atStart)}

\* The calls a run owes to the units it found at loop entry.
OwedCalls(cfg, chs) ==
    LET processed(c) == ~IsShort(c) /\ ~(cfg.smartSkip /\ c.isSkippable)
        kept(c) == cfg.smartSkip /\ c.isReference /\ c.translatedMarkdown = None
        owes(op, c) ==
            /\ processed(c)
            /\ ~kept(c)
            /\ IF op = "translate" THEN c.translatedMarkdown = None
               ELSE cfg.enableProofreading /\ c.proofreadMarkdown = None
    IN  {<<op, u>> \in {"translate", "proofread"} \X (1..Len(chs)) : owes(op, chs[u])}

\* C3: a run calls the service for no unit that holds both texts and, of the
\* other units, for exactly those that are not short, not smart-skipped and
\* not kept as a reference, once per enabled pass whose text the unit lacked
\* at loop entry.
C3_Resumability ==
    /\ Len(atStart) = Len(chapters) => called \subseteq OwedCalls(runConfig, atStart)
    /\ RunCompleted => called = OwedCalls(runConfig, atStart)
    /\ \A u \in DOMAIN atStart :
         (atStart[u].translatedMarkdown # None /\ atStart[u].proofreadMarkdown # None)
           => \A op \in {"translate", "proofread"} : <<op, u>> \notin called

\* C3 witness: a completed run found its first unit with both texts and
\* called the service for a later one.
C3_Witness ==
    /\ RunCompleted
    /\ Len(atStart) > 1
    /\ atStart[1].translatedMarkdown # None
    /\ atStart[1].proofreadMarkdown # None
    /\ \E op \in {"translate", "proofread"}, u \in 2..Len(atStart) : <<op, u>> \in called

\* C4: while translate is invoked for a unit the unit has no translated text,
\* and while proofread is invoked for a unit it has no proofread text.
C4_NoRepeatedPass ==
    /\ pc = "translate" => chapters[i].translatedMarkdown = None
    /\ pc = "proofread" => chapters[i].proofreadMarkdown = None

\* C4 witness: the loop passed a unit whose translation was already stored
\* when the run began, without calling translate for it.
C4_Witness ==
    /\ pc = "progress"
    /\ Len(atStart) = Len(chapters)
    /\ atStart[i].translatedMarkdown # None
    /\ <<"translate", i>> \notin called

\* C5: at most one external call is in flight, it belongs to the one active
\* run, and no second run starts while one is active.
C5_OneCallInFlight ==
    /\ inFlight \in {0, 1}
    /\ activeRuns \in {0, 1}
    /\ inFlight = 1 <=> cpc = "call"
    /\ cpc # "none" => activeRuns = 1 /\ pc \in {"translate", "proofread"}
    /\ status \in BusyStatuses => activeRuns = 1

\* C5 witness: the call for the second chunk of a unit is in flight, after
\* the call for the first chunk returned.
C5_Witness ==
    /\ inFlight = 1
    /\ k = 2
    /\ Len(acc) = 1
    /\ pc = "proofread"
    /\ i = 1

\* C6: a run starts, the file changes, the book is reset and the
\* configuration is edited only in a step taken while the status is Idle,
\* Completed or Error; hence a run works under the configuration it started
\* with.
C6_ControlsGated ==
    [][/\ activeRuns' > activeRuns => status \in IdleStatuses
       /\ config' # config => status \in IdleStatuses
       /\ currentFile' # currentFile => status \in IdleStatuses
       /\ status \in BusyStatuses => status' # "IDLE"
       /\ (chapters # << >> /\ chapters' = << >>) => status \in IdleStatuses
       /\ pc # "idle" => config = runConfig /\ config' = config]_vars

\* C6 witness: a run resumed under a configuration edited after the earlier
\* run had stored a text is busy.
C6_Witness ==
    /\ status \in BusyStatuses
    /\ runConfig # DEFAULT_CONFIG(service)
    /\ Len(atStart) > 0
    /\ \E u \in DOMAIN atStart : atStart[u].translatedMarkdown # None

\* p <= q for two progress fractions.
ProgressLeq(p, q) == p[1] * q[2] <= q[1] * p[2]

\* C7 as stated: within one run the published progress never decreases, and
\* 100 is on display only once the run has reached Completed.
C7_AsStated ==
    [][/\ (published /\ published') => ProgressLeq(progress, progress')
       /\ (published' /\ progress'[1] = progress'[2]) => status' = "COMPLETED"]_vars

\* C8 as stated: a backoff started by an error whose text contains "429"
\* lasts at least 15000 ms, and no backoff (no retry) follows an error whose
\* text contains "401".
C8_AsStated ==
    cpc = "backoff" =>
        /\ "429" \in err => wait >= Ms(15000)
        /\ "401" \notin err

C10_AsStated ==
    [][(cpc \in {"none", "polite"} /\ cpc' = "call")
         => retries' = IF pc' = "translate" THEN 5 ELSE 3]_vars

\* C10: every chunk of either pass starts with the full budget of its
\* client, 3 retries in AiService and 5 in GeminiService, whatever happened to
\* the chunks before it; each retry takes one from the budget; an error is
\* retried only while budget is left, and an error outside the fatal class
\* of the client propagates only when none is left.
C10_RetryBudget ==
    [][/\ (cpc \in {"none", "polite"} /\ cpc' = "call")
            => retries' = IF service = "AiService" THEN 3 ELSE 5
       /\ (cpc = "backoff" /\ cpc' = "call") => retries' = retries - 1
       /\ (cpc = "call" /\ cpc' = "backoff") => retries > 0
       /\ (cpc = "call" /\ status' = "ERROR"
           /\ ~(service = "AiService" /\ err' \cap {"400", "401", "403"} # {}))
            => retries = 0]_vars

\* C10 witness: the second chunk of a proofread starts with the full budget.
C10_Witness ==
    /\ pc = "proofread"
    /\ k = 2
    /\ cpc = "call"
    /\ retries = (IF service = "AiService" THEN 3 ELSE 5)

\* C11: the error raised by a failing translate or proofread names the
\* 1-based index of the chunk whose call failed (one more than the number of
\* chunks already answered) and carries the last underlying error.
C11_FailedPart ==
    [][(cpc = "call" /\ status' = "ERROR")
         => /\ raised'.op = pc
            /\ raised'.part = Len(acc) + 1
            /\ raised'.part >= 1
            /\ raised'.cause = err'
            /\ err' # NoError]_vars

\* C11 witness: a proofread failed at its second chunk.
C11_Witness ==
    /\ status = "ERROR"
    /\ raised.op = "proofread"
    /\ raised.part = 2
    /\ raised.cause = {"403"}

\* C12: a failing call that has budget left and whose error is outside the
\* fatal class of the client is followed by a backoff and a new call for the
\* same chunk, with status, log, units and answered chunks as they were; a
\* call that succeeds on the last chunk, retried or not, stores the text of
\* the unit and does not set the status to Error.
C12_RecoveredLocally ==
    [][/\ (/\ cpc = "call"
           /\ err' # NoError
           /\ retries > 0
           /\ ~(service = "AiService" /\ err' \cap {"400", "401", "403"} # {}))
            => /\ cpc' = "backoff"
               /\ <<status, errLogs, pc, i, k, acc, chapters>>'
                    = <<status, errLogs, pc, i, k, acc, chapters>>
       /\ cpc = "backoff"
            => /\ cpc' = "call"
               /\ <<status, errLogs, pc, i, k, acc, chapters>>'
                    = <<status, errLogs, pc, i, k, acc, chapters>>
       /\ (cpc = "call" /\ err' = NoError /\ k = Len(Chunks))
            => /\ status' # "ERROR"
               /\ pc = "translate" => chapters'[i].translatedMarkdown # None
               /\ pc = "proofread" => chapters'[i].proofreadMarkdown # None]_vars

\* C12 witness: a run completed without any error entry although a call of
\* it had failed and was retried.
C12_Witness ==
    /\ RunCompleted
    /\ recovered
    /\ errLogs = 0
    /\ called # {}

\* C13: when a call is issued no call of the run belongs to a later unit and,
\* if it is a translate call, no proofread call of the run belongs to its
\* unit; the chunk it submits is the one after the chunks already answered;
\* and the loop index of a run never decreases.
C13_CallOrder ==
    [][/\ inFlight' > inFlight
            => /\ \A c \in called : c[2] <= i'
               /\ pc' = "translate" => <<"proofread", i'>> \notin called
               /\ k' = Len(acc') + 1
               /\ <<pc', i'>> \in called'
       /\ (pc # "idle" /\ pc' # "idle") => i' >= i]_vars

\* C13 witness: the proofread call of the second unit is in flight after both
\* passes of the first unit and the translation of the second were called.
C13_Witness ==
    /\ inFlight = 1
    /\ i = 2
    /\ pc = "proofread"
    /\ {<<"translate", 1>>, <<"proofread", 1>>, <<"translate", 2>>} \subseteq called

\* The text under the chunker, once it has been split.
SplitDone == pc \in {"join", "echoed"}

\* C14: a text of at most CHUNK_SIZE characters is returned as one chunk
\* equal to the text.
C14_ShortTextOneChunk ==
    (SplitDone /\ Len(chapters[1].markdown) <= CHUNK_SIZE)
        => acc = <<chapters[1].markdown>>

\* C14 witness: a text of exactly CHUNK_SIZE characters that holds a blank
\* line and an empty first paragraph has been split.
C14_Witness ==
    /\ SplitDone
    /\ Len(chapters[1].markdown) = CHUNK_SIZE
    /\ SubSeq(chapters[1].markdown, 1, 2) = Para

\* The characters of a text that are not newlines, in order.
NonNewline(t) == SelectSeq(t, LAMBDA c : c # NL)

\* No paragraph of the text is empty or longer than CHUNK_SIZE.
PlainParagraphs(t) ==
    \A j \in DOMAIN SplitParagraphs(t) :
        /\ Len(SplitParagraphs(t)[j]) > 0
        /\ Len(SplitParagraphs(t)[j]) <= CHUNK_SIZE

\* C15: the chunks of a text, echoed and joined with the blank-line
\* separator, hold the non-newline characters of the text, each once and in
\* order; if no paragraph of the text is empty or longer than CHUNK_SIZE the
\* join is the text.
C15_JoinRestoresText ==
    pc = "echoed" =>
        /\ NonNewline(chapters[1].translatedMarkdown) = NonNewline(chapters[1].markdown)
        /\ PlainParagraphs(chapters[1].markdown)
             => chapters[1].translatedMarkdown = chapters[1].markdown

\* C15 witness: a text of plain paragraphs was split into two chunks and
\* joined back.
C15_Witness ==
    /\ pc = "echoed"
    /\ Len(acc) = 2
    /\ PlainParagraphs(chapters[1].markdown)
    /\ chapters[1].translatedMarkdown = chapters[1].markdown

\* C16: no chunk is longer than CHUNK_SIZE, whatever the text.
C16_ChunkWithinBudget ==
    SplitDone => \A j \in DOMAIN acc : Len(acc[j]) <= CHUNK_SIZE

\* C16 witness: a text that is one line longer than CHUNK_SIZE has been cut.
C16_Witness ==
    /\ SplitDone
    /\ Len(chapters[1].markdown) > CHUNK_SIZE
    /\ NonNewline(chapters[1].markdown) = chapters[1].markdown
    /\ Len(acc) = 2
    /\ Len(acc[1]) = CHUNK_SIZE

\* C17: the archive of a completed run has one document per unit when
\* smart-skip is off and one per unit that is not skippable when it is on, in
\* the order of the units, each made of the title and the text of its unit.
C17_PackedUnits ==
    RunCompleted =>
        LET handed == IF runConfig.smartSkip
                      THEN SelectSeq(chapters, LAMBDA c : ~c.isSkippable)
                      ELSE chapters
        IN  /\ Len(downloadUrl.docs) = Len(handed)
            /\ \A n \in DOMAIN handed :
                 /\ downloadUrl.docs[n].file = n
                 /\ downloadUrl.docs[n].title = handed[n].title
                 /\ downloadUrl.docs[n].body = ContentToUse(handed[n])

\* C17 witness: a book of two units, the second skippable, was packaged under
\* smart-skip as one document, that of the first unit.
C17_Witness ==
    /\ RunCompleted
    /\ runConfig.smartSkip
    /\ Len(chapters) = 2
    /\ chapters[2].isSkippable
    /\ Len(downloadUrl.docs) = 1
    /\ downloadUrl.docs[1].title = chapters[1].title

\* C18 as stated: after a run under smart-skip every reference unit holds its
\* original text as both texts and the run made no call for it.
C18_AsStated ==
    (RunCompleted /\ runConfig.smartSkip) =>
        \A u \in DOMAIN chapters :
            chapters[u].isReference =>
                /\ chapters[u].translatedMarkdown = chapters[u].markdown
                /\ chapters[u].proofreadMarkdown = chapters[u].markdown
                /\ \A op \in {"translate", "proofread"} : <<op, u>> \notin called

\* C18: under smart-skip a reference unit that is not skippable, not short
\* and had no translated text when the run began gets no call, and once the
\* loop has passed it, it holds its original text as both texts.
C18_ReferenceKept ==
    (runConfig.smartSkip /\ Len(atStart) = Len(chapters)) =>
        \A u \in DOMAIN atStart :
            (/\ atStart[u].isReference
             /\ ~atStart[u].isSkippable
             /\ ~IsShort(atStart[u])
             /\ atStart[u].translatedMarkdown = None)
              => /\ \A op \in {"translate", "proofread"} : <<op, u>> \notin called
                 /\ (RunCompleted \/ (pc \in {"loop", "translate", "proofread",
                                             "progress", "package"} /\ i > u))
                      => /\ chapters[u].translatedMarkdown = chapters[u].markdown
                         /\ chapters[u].proofreadMarkdown = chapters[u].markdown

\* C18 witness: a run under smart-skip that called the service for another
\* unit completed with a reference unit holding its original as both texts.
C18_Witness ==
    /\ RunCompleted
    /\ runConfig.smartSkip
    /\ called # {}
    /\ \E u \in DOMAIN chapters :
         /\ chapters[u].isReference
         /\ atStart[u].translatedMarkdown = None
         /\ chapters[u].translatedMarkdown = chapters[u].markdown
         /\ chapters[u].proofreadMarkdown = chapters[u].markdown

\* C19: under smart-skip a unit with both flags is treated as skippable: the
\* run gives it no text, makes no call for it, and leaves it out of the
\* archive.
C19_SkippableFirst ==
    (runConfig.smartSkip /\ Len(atStart) = Len(chapters)) =>
        \A u \in DOMAIN atStart :
            (atStart[u].isSkippable /\ atStart[u].isReference)
              => /\ chapters[u].translatedMarkdown = atStart[u].translatedMarkdown
                 /\ chapters[u].proofreadMarkdown = atStart[u].proofreadMarkdown
                 /\ \A op \in {"translate", "proofread"} : <<op, u>> \notin called
                 /\ RunCompleted
                      => \A n \in DOMAIN downloadUrl.docs :
                            downloadUrl.docs[n].title # chapters[u].title

\* C19 witness: a book whose only unit has both flags completed under
\* smart-skip with no text for the unit and an archive without documents.
C19_Witness ==
    /\ RunCompleted
    /\ runConfig.smartSkip
    /\ Len(chapters) = 1
    /\ chapters[1].isSkippable
    /\ chapters[1].isReference
    /\ chapters[1].translatedMarkdown = None
    /\ chapters[1].proofreadMarkdown = None
    /\ downloadUrl.docs = << >>

\* C20 as stated: no unit comes out of the classifier with both flags.
C20_AsStated ==
    \A u \in DOMAIN chapters : ~(chapters[u].isSkippable /\ chapters[u].isReference)

\* C20: neither the title alone nor the file name alone gives a unit both
\* flags; a unit has both only if one flag comes from its title and the other
\* from its file name.
C20_FlagsFromDifferentSources ==
    \A u \in DOMAIN chapters :
        LET title == chapters[u].title
            href == chapters[u].fileName
        IN  /\ ~(TitleSkippable(title) /\ TitleReference(title))
            /\ ~(FileSkippable(href) /\ FileReference(href))
            /\ (chapters[u].isSkippable /\ chapters[u].isReference)
                 => \/ TitleSkippable(title) /\ FileReference(href)
                    \/ TitleReference(title) /\ FileSkippable(href)

\* C20 witness: the unit titled "Cover" in file notes.xhtml has both flags.
C20_Witness ==
    /\ Len(chapters) = 1
    /\ chapters[1].title = <<"Cover">>
    /\ chapters[1].fileName = Href("notes", "xhtml")
    /\ chapters[1].isSkippable
    /\ chapters[1].isReference

\* The identity of the parsed book: everything of the units but the two
\* texts a run writes.
Parsed(chs) ==
    [n \in 1..Len(chs) |->
        [id |-> chs[n].id, fileName |-> chs[n].fileName, title |-> chs[n].title,
         markdown |-> chs[n].markdown, isSkippable |-> chs[n].isSkippable,
         isReference |-> chs[n].isReference]]

\* C21: a run calls the Reader if and only if the unit collection is empty
\* when it starts; the Reader is called only then; and a step of a run whose
\* unit collection is populated never enters Parsing and never replaces the
\* units, the assets or the cover reference.
C21_ParseIffEmpty ==
    [][/\ (activeRuns' > activeRuns)
          => /\ (pc' = "parse") <=> (Len(chapters) = 0)
             /\ (status' = "PARSING") <=> (Len(chapters) = 0)
       /\ (pc' = "parse" /\ pc # "parse") => activeRuns' > activeRuns
       /\ (Len(chapters) > 0 /\ (activeRuns > 0 \/ activeRuns' > 0))
          => /\ status # "PARSING" => status' # "PARSING"
             /\ Parsed(chapters') = Parsed(chapters)
             /\ images' = images
             /\ coverPath' = coverPath]_vars

\* C21 witness: a resumed run is translating: a unit it found translated when
\* it started stands before the unit it is in.
C21_Witness ==
    /\ pc = "translate"
    /\ i > 1
    /\ Truthy(atStart[1].translatedMarkdown)
    /\ coverPath # None

\* C22 as stated: a file that lacks the container descriptor, the package
\* descriptor, the manifest or the spine never gets a run past Parsing: the
\* status is then Idle, Parsing or Error, the unit collection is empty and no
\* external call has been made.
C22_AsStated ==
    (currentFile # NoFile /\ Descriptors(currentFile) # AllDescriptors)
      => /\ status \in {"IDLE", "PARSING", "ERROR"}
         /\ Len(chapters) = 0
         /\ called = {}
         /\ inFlight = 0

\* C23: a failed packaging step ends the run in Error with no archive on
\* offer; an archive is on offer only while the status is Completed; and an
\* archive comes on offer, or the one on offer changes, only by the packaging
\* step that completes a run, which offers the archive it has just built.
C23_ArchiveOnlyCompleted ==
    [][/\ (pc = "package" /\ status' # "COMPLETED")
          => (status' = "ERROR" /\ ~DownloadOffered')
       /\ DownloadOffered' => status' = "COMPLETED"
       /\ (DownloadOffered' /\ (~DownloadOffered \/ downloadUrl' # downloadUrl))
          => /\ pc = "package"
             /\ downloadUrl' = generateEpub(ChaptersToPack(runConfig, chapters), images,
                                            runConfig.targetLanguage, coverPath)]_vars

\* C23 witness: packaging has failed in a run restarted from Completed; the
\* archive of the earlier run is still stored.
C23_Witness ==
    /\ status = "ERROR"
    /\ pc = "idle"
    /\ raised = PlainError(OtherError)
    /\ Len(chapters) > 0
    /\ downloadUrl # NoUrl

\* C24: in the archive of a completed run the document of each packaged unit
\* holds the unit's proofread text if the unit has one, else its translated
\* text if it has one, else its original text, whether or not the run had
\* proofreading enabled.
C24_BestText ==
    RunCompleted =>
        LET handed == ChaptersToPack(runConfig, chapters)
        IN  \A n \in DOMAIN handed :
              downloadUrl.docs[n].body =
                 IF handed[n].proofreadMarkdown # None
                 THEN handed[n].proofreadMarkdown
                 ELSE IF handed[n].translatedMarkdown # None
                      THEN handed[n].translatedMarkdown
                      ELSE handed[n].markdown

\* C24 witness: a run without proofreading has packaged a unit that held a
\* proofread text, different from its translated text, from an earlier run;
\* the same archive holds a unit without any stored text.
C24_Witness ==
    /\ RunCompleted
    /\ ~runConfig.enableProofreading
    /\ \E n \in DOMAIN downloadUrl.docs, u \in DOMAIN chapters :
          /\ chapters[u].proofreadMarkdown # None
          /\ chapters[u].proofreadMarkdown # chapters[u].translatedMarkdown
          /\ downloadUrl.docs[n].body = chapters[u].proofreadMarkdown
    /\ \E n \in DOMAIN downloadUrl.docs, u \in DOMAIN chapters :
          /\ chapters[u].translatedMarkdown = None
          /\ downloadUrl.docs[n].body = chapters[u].markdown

\* The place of a status in the order of the phases; a status left by an
\* earlier run, or Idle, comes before every phase.
PhaseRank(st) ==
    CASE st = "PARSING" -> 1
      [] st \in {"TRANSLATING", "PROOFREADING"} -> 2
      [] st = "PACKAGING" -> 3
      [] OTHER -> 0

\* C25: while a run goes on its status never moves back in the order Parsing,
\* Translating or Proofreading, Packaging; Completed is entered only from
\* Packaging, and Error only from Parsing, Translating, Proofreading or
\* Packaging.
C25_PhaseOrder ==
    [][/\ (activeRuns = 1 /\ activeRuns' = 1)
          => PhaseRank(status') >= PhaseRank(status)
       /\ (status' = "COMPLETED" /\ status # "COMPLETED") => status = "PACKAGING"
       /\ (status' = "ERROR" /\ status # "ERROR") => status \in BusyStatuses
       /\ (status' \in BusyStatuses /\ status' # status) => activeRuns' = 1]_vars

\* C25 witness: a run has gone through Parsing, Translating, Proofreading and
\* Packaging and is Completed.
C25_Witness ==
    /\ RunCompleted
    /\ <<"translate", 1>> \in called
    /\ <<"proofread", 1>> \in called
    /\ \A u \in DOMAIN atStart : atStart[u].translatedMarkdown = None

\* A call of the external service is in flight for pass op.
CallInFlight(op) == pc = op /\ cpc = "call"

\* C26 as stated: with recommended mode off both instructions are exactly the
\* user's texts; with it on they are the presets, the output rules appended to
\* the translation instruction only.
C26_AsStated ==
    /\ CallInFlight("translate")
         => instruction =
              IF runConfig.useRecommendedPrompts
              THEN (IF service = "AiService" THEN RECOMMENDED_TRANSLATION_CORE
                    ELSE RECOMMENDED_TRANSLATION_PROMPT)
                     \o <<"\n\n">> \o MANDATORY_OUTPUT_RULES
              ELSE runConfig.systemInstruction
    /\ CallInFlight("proofread")
         => instruction =
              IF runConfig.useRecommendedPrompts
              THEN RECOMMENDED_PROOFREAD_PROMPT
              ELSE runConfig.proofreadInstruction

\* C26: the proofreading instruction is the preset in recommended mode and
\* the user's text otherwise, nothing appended.  The translation instruction
\* starts with the preset in recommended mode and with the user's text
\* otherwise; the AiService build appends a blank line and the output rules
\* to it in both modes, the GeminiService build appends nothing in either.
C26_Instructions ==
    /\ CallInFlight("translate")
         => LET base == IF runConfig.useRecommendedPrompts
                        THEN (IF service = "AiService"
                              THEN RECOMMENDED_TRANSLATION_CORE
                              ELSE RECOMMENDED_TRANSLATION_PROMPT)
                        ELSE runConfig.systemInstruction
            IN  instruction =
                  base \o (IF service = "AiService"
                           THEN <<"\n\n">> \o MANDATORY_OUTPUT_RULES ELSE << >>)
    /\ CallInFlight("proofread")
         => instruction =
              IF runConfig.useRecommendedPrompts
              THEN RECOMMENDED_PROOFREAD_PROMPT
              ELSE runConfig.proofreadInstruction

\* C26 witness: the AiService build translates with recommended mode off and
\* a text the user typed; the instruction it passes is longer than that text.
C26_Witness ==
    /\ CallInFlight("translate")
    /\ service = "AiService"
    /\ ~runConfig.useRecommendedPrompts
    /\ runConfig.systemInstruction = <<"Translate", "plainly">>
    /\ Len(instruction) > Len(runConfig.systemInstruction)

\* C27: a step of handleFileSelect or of handleReset, from whatever state
\* allows it, leaves the status Idle, the units and the assets empty, the cover
\* reference absent, the progress 0 and no archive on offer or stored; and a
\* run started over an empty unit collection goes to the parser.
C27_ResetClears ==
    [][/\ ((\E f \in Files : handleFileSelect(f)) \/ handleReset)
          => /\ status' = "IDLE"
             /\ chapters' = << >>
             /\ images' = << >>
             /\ coverPath' = None
             /\ progress' = Zero
             /\ downloadUrl' = NoUrl
             /\ ~DownloadOffered'
             /\ pc' = "idle"
       /\ (activeRuns' > activeRuns /\ chapters = << >>)
          => (pc' = "parse" /\ status' = "PARSING")]_vars

\* C27 witness: the page is back to Idle with a file chosen and nothing
\* stored, under settings that differ from the initial ones.
C27_Witness ==
    /\ status = "IDLE"
    /\ currentFile = "novel.epub"
    /\ chapters = << >>
    /\ images = << >>
    /\ coverPath = None
    /\ progress = Zero
    /\ downloadUrl = NoUrl
    /\ config.targetLanguage = "English"

\* C28: if every call and every delay returns, a started run returns and a
\* busy status gives way to Completed or Error; and a run that returns
\* without Completed returns with status Error and one more error entry in
\* the log.
C28_RunTerminates ==
    /\ (activeRuns > 0) ~> (activeRuns = 0 /\ status \in {"COMPLETED", "ERROR"})
    /\ (status \in BusyStatuses) ~> (status \in {"COMPLETED", "ERROR"})
    /\ [][(activeRuns' < activeRuns /\ status' # "COMPLETED")
            => (status' = "ERROR" /\ errLogs' = errLogs + 1 /\ raised' # NoRaise)]_vars

\* C28 witness: a run has ended in Error after the external service failed
\* more often than the retry budget allows.
C28_Witness ==
    /\ status = "ERROR"
    /\ activeRuns = 0
    /\ errLogs = 1
    /\ raised.op = "translate"
    /\ "429" \in raised.cause

\* C29: once the parser has returned, no step of a run (translating,
\* proofreading, packaging, failing) changes the assets, the cover reference,
\* the number or order of the units, or a unit's id, file name, title,
\* original text or flags.
C29_ParsedBookFrozen ==
    [][(pc \notin {"idle", "parse"})
         => /\ images' = images
            /\ coverPath' = coverPath
            /\ Len(chapters') = Len(chapters)
            /\ \A u \in DOMAIN chapters :
                 /\ chapters'[u].id = chapters[u].id
                 /\ chapters'[u].fileName = chapters[u].fileName
                 /\ chapters'[u].title = chapters[u].title
                 /\ chapters'[u].markdown = chapters[u].markdown
                 /\ chapters'[u].isSkippable = chapters[u].isSkippable
                 /\ chapters'[u].isReference = chapters[u].isReference]_vars

\* C29 witness: a book with assets and a cover was translated, proofread and
\* packaged, and is stored as the parser returned it but for the two texts.
C29_Witness ==
    /\ RunCompleted
    /\ images # << >>
    /\ coverPath # None
    /\ chapters[1].proofreadMarkdown # None
    /\ chapters[1].translatedMarkdown # chapters[1].markdown
    /\ Parsed(chapters) = Parsed(ParsedChapters(currentFile))

\* C30: a unit that holds a proofread text holds a translated text, and the
\* text a proofread call is made on is the translated text stored for the
\* unit the run is in.
C30_ProofreadsTranslation ==
    /\ \A u \in DOMAIN chapters :
          chapters[u].proofreadMarkdown # None
            => chapters[u].translatedMarkdown # None
    /\ (pc = "proofread")
          => /\ chapters[i].translatedMarkdown # None
             /\ content = chapters[i].translatedMarkdown

\* C30 witness: a proofread call is in flight on a translated text that
\* differs from the original.
C30_Witness ==
    /\ CallInFlight("proofread")
    /\ content = chapters[i].translatedMarkdown
    /\ content # chapters[i].markdown

\* C31 as stated: a short unit never gets a call or a stored text, and the
\* progress computation of a run counts no step for it, whatever its flags.
C31_AsStated ==
    \A u \in DOMAIN chapters :
        IsShort(chapters[u])
          => /\ chapters[u].translatedMarkdown = None
             /\ chapters[u].proofreadMarkdown = None
             /\ \A op \in {"translate", "proofread"} : <<op, u>> \notin called
             /\ (activeRuns > 0) => UnitSteps(runConfig, chapters[u]) = 0

\* C31: a short unit never gets a call or a stored text, whatever its flags;
\* the progress computation of a run counts no step for it unless smart-skip
\* is on and the unit is skippable, in which case it counts every step of the
\* unit as done.
C31_ShortUnitSkipped ==
    \A u \in DOMAIN chapters :
        (Len(Trim(chapters[u].markdown)) < MIN_LENGTH)
          => /\ chapters[u].translatedMarkdown = None
             /\ chapters[u].proofreadMarkdown = None
             /\ \A op \in {"translate", "proofread"} : <<op, u>> \notin called
             /\ (activeRuns > 0)
                  => UnitSteps(runConfig, chapters[u]) =
                       IF runConfig.smartSkip /\ chapters[u].isSkippable
                       THEN (IF runConfig.enableProofreading THEN 2 ELSE 1)
                       ELSE 0

\* C31 witness: a run is past a short skippable unit and a short reference
\* unit, has made a call for a later unit and has published a progress.
C31_Witness ==
    /\ activeRuns > 0
    /\ published
    /\ i = 3
    /\ called # {}
    /\ Len(Trim(chapters[1].markdown)) < MIN_LENGTH
    /\ chapters[1].isSkippable
    /\ Len(Trim(chapters[2].markdown)) < MIN_LENGTH
    /\ chapters[2].isReference
    /\ runConfig.smartSkip

\* The cover path is a key of the image table.
CoverIsAsset == \E n \in DOMAIN images : images[n] = coverPath

\* C32 as stated: in the archive of a completed run, if the cover path is a
\* key of the image table then exactly one image entry of the manifest is
\* marked as cover image and the cover metadata names it; if no cover path
\* was resolved, no entry is marked and there is no cover metadata.
C32_AsStated ==
    RunCompleted =>
        LET marked == {n \in DOMAIN downloadUrl.manifestImages :
                          downloadUrl.manifestImages[n].coverImage}
        IN  /\ (coverPath # None /\ CoverIsAsset)
               => /\ Cardinality(marked) = 1
                  /\ \A n \in marked :
                        downloadUrl.coverMeta = downloadUrl.manifestImages[n].id
            /\ (coverPath = None)
               => (marked = {} /\ downloadUrl.coverMeta = None)

\* A call of the external service fails in this step with the error err'.
CallFailing == cpc = "call" /\ inFlight' < inFlight /\ err' # NoError

\* C33: in AiService an error whose text contains 400, 401 or 403 is thrown
\* at once, also when it contains 429 or RESOURCE_EXHAUSTED as well; an error
\* that contains none of the five markers is, while retries are left, retried
\* after twice the current delay.
C33_FatalFirst ==
    [][CallFailing
         => /\ (err' \cap {"400", "401", "403"} # {})
                 => (cpc' # "backoff" /\ status' = "ERROR" /\ raised'.cause = err')
            /\ (err' \cap {"400", "401", "403", "429", "RESOURCE_EXHAUSTED"} = {}
                /\ retries > 0)
                 => (cpc' = "backoff" /\ wait' = 2 * delay /\ status' = status)]_vars

\* C33 witness: the first call of a run failed with an error that names both
\* 401 and 429, and the run is in Error without a retry.
C33_Witness ==
    /\ service = "AiService"
    /\ status = "ERROR"
    /\ err = {"401", "429"}
    /\ raised.cause = {"401", "429"}
    /\ raised.part = 1
    /\ ~recovered

\* The number of texts stored in the units.
StoredPasses(chs) ==
    Cardinality({u \in DOMAIN chs : chs[u].translatedMarkdown # None})
      + Cardinality({u \in DOMAIN chs : chs[u].proofreadMarkdown # None})

C35_AsStated ==
    published => (0 <= progress[1] /\ progress[1] <= progress[2])

\* The units a run with settings cfg owes texts for.
OwedUnits(cfg, chs) ==
    {u \in DOMAIN chs : ~IsShort(chs[u]) /\ ~IsSmartSkipped(cfg, chs[u])}

\* C36: while a run is packaging, and once it has completed, every unit that
\* is neither short nor excluded by smart-skip holds a translated text, and a
\* proofread text as well if the run had proofreading enabled.
C36_OwedTextsStored ==
    (status = "PACKAGING" \/ RunCompleted) =>
        \A u \in OwedUnits(runConfig, chapters) :
            /\ Truthy(chapters[u].translatedMarkdown)
            /\ runConfig.enableProofreading => Truthy(chapters[u].proofreadMarkdown)

\* C36 witness: a run with proofreading enabled has completed a book that
\* holds a short unit and a unit it owed both texts for, one of which it had
\* to produce itself.
C36_Witness ==
    /\ RunCompleted
    /\ runConfig.enableProofreading
    /\ \E u \in DOMAIN chapters : IsShort(chapters[u])
    /\ \E u \in OwedUnits(runConfig, chapters) :
           /\ ~Truthy(atStart[u].proofreadMarkdown)
           /\ <<"proofread", u>> \in called

Passes == {"translate", "proofread"}

\* The text a pass stores in a unit.
PassText(op, c) ==
    IF op = "translate" THEN c.translatedMarkdown ELSE c.proofreadMarkdown

\* C37: when a chunk of a unit fails terminally during a pass, the outputs
\* obtained for the earlier chunks are dropped and the unit's text for that
\* pass stays absent; every pass starts at chunk 1 with nothing collected,
\* advances one chunk at a time, and stores a text only after the last chunk
\* of the unit has returned in the same run.
C37_PartialOutputDiscarded ==
    [][/\ (pc \in Passes /\ status' = "ERROR")
          => (acc' = << >> /\ PassText(pc, chapters'[i]) = None)
       /\ (pc' \in Passes /\ pc' # pc)
          => (k' = 1 /\ acc' = << >> /\ cpc' = "call"
              /\ content' = ContentFor(pc', i')
              /\ PassText(pc', chapters'[i']) = None)
       /\ (pc \in Passes /\ pc' = pc /\ k' # k)
          => (k' = k + 1 /\ Len(acc') = k /\ i' = i)
       /\ (pc \in Passes
           /\ PassText(pc, chapters'[i]) # PassText(pc, chapters[i]))
          => (k = Len(Chunks) /\ Len(acc) = k - 1)]_vars

\* C37 witness: the second chunk of a unit has failed terminally during
\* translation, after the first chunk had returned, and the unit holds no
\* translated text.
C37_Witness ==
    /\ status = "ERROR"
    /\ pc = "idle"
    /\ raised # NoRaise
    /\ raised.op = "translate"
    /\ raised.part = 2
    /\ \E u \in DOMAIN chapters :
           /\ <<"translate", u>> \in called
           /\ chapters[u].translatedMarkdown = None

\* The split has returned at least one chunk and no empty one, and the joined
\* result, once stored, is not empty.
ChunksUsable ==
    /\ Len(acc) >= 1
    /\ \A j \in DOMAIN acc : Len(acc[j]) > 0
    /\ pc = "echoed" => Len(chapters[i].translatedMarkdown) > 0

\* C38 as stated: every non-empty text is split into at least one chunk, none
\* of them empty, and the joined result is not empty.
C38_AsStated ==
    (SplitDone /\ Len(content) > 0) => ChunksUsable

\* C38: every text that holds a character other than a line break is split
\* into at least one chunk, none of them empty, and the joined result is not
\* empty.
C38_NoEmptyChunk ==
    (SplitDone /\ NonNewline(content) # << >>) => ChunksUsable

\* C38 witness: a text longer than CHUNK_SIZE that holds empty paragraphs and
\* empty lines has been split into several chunks and joined.
C38_Witness ==
    /\ pc = "echoed"
    /\ Len(content) > CHUNK_SIZE
    /\ NonNewline(content) # << >>
    /\ \E j \in DOMAIN SplitParagraphs(content) : SplitParagraphs(content)[j] = << >>
    /\ Len(acc) >= 2

\* Every text a run with settings cfg owes is stored in chs.
OwedStored(cfg, chs) ==
    \A u \in OwedUnits(cfg, chs) :
        /\ Truthy(chs[u].translatedMarkdown)
        /\ cfg.enableProofreading => Truthy(chs[u].proofreadMarkdown)

\* The current run was started from Completed on a book whose owed texts
\* were all stored, and has not set a status of its own yet.
RestartedComplete ==
    /\ pc # "idle"
    /\ status = "COMPLETED"
    /\ Len(atStart) > 0
    /\ OwedStored(runConfig, atStart)

\* C39: a run started from Completed with the settings unchanged and a
\* non-empty book does not parse and finds every owed text stored; such a run
\* calls neither the parser nor the external service and changes no unit, the
\* next status it sets is Packaging, and packaging that succeeds sets
\* Completed with an archive built from the stored texts.
C39_RestartOnlyPackages ==
    [][/\ (RunCompleted /\ Len(chapters) > 0 /\ config = runConfig /\ pc' # "idle")
          => (/\ pc' = "loop"
              /\ status' = "COMPLETED"
              /\ runConfig' = runConfig
              /\ atStart' = chapters
              /\ OwedStored(runConfig', atStart'))
       /\ RestartedComplete
          => (/\ pc \in {"loop", "progress"}
              /\ called' = {}
              /\ inFlight' = 0
              /\ chapters' = atStart
              /\ status' \in {"COMPLETED", "PACKAGING"}
              /\ status' = "PACKAGING" => pc' = "package")
       /\ (status = "PACKAGING" /\ status' = "COMPLETED"
           /\ Len(atStart) > 0 /\ OwedStored(runConfig, atStart))
          => (/\ pc' = "idle"
              /\ chapters' = atStart
              /\ downloadUrl' = generateEpub(ChaptersToPack(runConfig, atStart),
                                             images, runConfig.targetLanguage,
                                             coverPath))]_vars

\* C39 witness: a run started from Completed on a book with stored texts has
\* completed again without a call, and no run on this book ever failed.
C39_Witness ==
    /\ RunCompleted
    /\ errLogs = 0
    /\ called = {}
    /\ config = runConfig
    /\ OwedUnits(runConfig, atStart) # {}
    /\ OwedStored(runConfig, atStart)
    /\ downloadUrl # NoUrl

\* The unit's translated text came from the external service: it is stored
\* and is not the original text a kept reference unit carries.
TranslatedByCall(c) ==
    Truthy(c.translatedMarkdown) /\ c.translatedMarkdown # c.markdown

\* The text is a join of answers the service gives to translate calls made
\* with target language lang.
ProducedWith(text, lang) ==
    \A j \in DOMAIN text :
        text[j] = NL \/ <<text[j]>> = Rep(ServiceResponse("translate", lang)[1], 1)

\* C40 as stated, for the units that go into the archive: once a run has
\* completed, every translated text of a packed unit that came from the
\* external service was produced with the target language of the settings of
\* that run.
C40_AsStated ==
    RunCompleted =>
        \A u \in DOMAIN chapters :
            (/\ ~IsSmartSkipped(runConfig, chapters[u])
             /\ TranslatedByCall(chapters[u]))
                => ProducedWith(chapters[u].translatedMarkdown, runConfig.targetLanguage)

====
